---- MODULE Spec2Model ----
(***************************************************************************)
(* Preview cache lifecycle and capture scheduling of the canvas link       *)
(* optimizer plugin (src/src/main.ts, patchLinkNode), and the installation *)
(* of the patch when the plugin loads (onload, tryPatchLinkNode).          *)
(*                                                                         *)
(* One record per link node holds the fields the patched methods read and  *)
(* write, the timers they arm and the asynchronous operations they leave   *)
(* in flight.  The vault adapter is the variable store.  Time advances in  *)
(* steps of Tick milliseconds; a timer that is due fires before time       *)
(* advances further.  The plugin and the canvas leaves of the workspace    *)
(* are the variable plugin.                                                *)
(***************************************************************************)
EXTENDS Integers, Sequences, FiniteSets, TLC

VARIABLES node, store, platform, last, plugin

vars == <<node, store, platform, last, plugin>>

(* ------------------------------ bounds -------------------------------- *)
Tick == 250          \* granularity of time, in ms
MaxBatch == 2        \* style mutations delivered in one observer callback
MaxInFlight == 2     \* capture-and-saves in flight per node
MaxTitleChanges == 1 \* title changes of the page a node shows
MaxLeaves == 2       \* canvas leaves open in the workspace
MaxLayoutChanges == 3 \* layout-change events of the workspace

(* ------------------------- program constants -------------------------- *)
DebounceTimeout == 500     \* debounce(() => this._saveThumbnail(), 500)
SettleDelay == 1000        \* await sleep(1000)
NoTimer == -1              \* the debouncer holds no timeout handle

Titles == {"t1", "t2"}     \* page titles; an image is tagged by the page it shows
Widths == {"", "100px", "200px"}   \* "" is an unset (unresolved) dimension
Heights == {"", "100px", "200px"}
Styles == [width : Widths, height : Heights]
Nodes == {1}

Max(a, b) == IF a >= b THEN a ELSE b
Min(a, b) == IF a <= b THEN a ELSE b
RemoveAt(s, i) == [j \in 1..(Len(s) - 1) |-> IF j < i THEN s[j] ELSE s[j + 1]]

(* ---------------------- style attribute handling ---------------------- *)
\* The style attribute as the list of its declarations; unset properties
\* are not serialised.  This is what mutation.oldValue holds.
StyleAttr(s) ==
    (IF s.width = "" THEN <<>> ELSE << <<"width", s.width>> >>)
    \o (IF s.height = "" THEN <<>> ELSE << <<"height", s.height>> >>)

\* oldValue.match(/prop:\s*([^;]+)(;|$)/): value of the first declaration of
\* prop, "" when there is no match.
RECURSIVE MatchDecl(_, _)
MatchDecl(attr, prop) ==
    IF attr = <<>> THEN ""
    ELSE IF Head(attr)[1] = prop THEN Head(attr)[2]
    ELSE MatchDecl(Tail(attr), prop)

\* Lines 99-100: the two early returns of the observer callback, for one
\* mutation record (oldValue) against the element's style as it is when the
\* callback runs.
RecordReturns(oldAttr, live) ==
    LET oldWidth == MatchDecl(oldAttr, "width")
        oldHeight == MatchDecl(oldAttr, "height")
    IN  \/ (oldWidth = "" \/ oldHeight = "" \/ live.width = "" \/ live.height = "")
        \/ (live.width = oldWidth /\ live.height = oldHeight)

\* Lines 83-102: the for loop over mutationList; the number of calls of the
\* debounced saveThumbnail it makes.  A return ends the whole callback.
RECURSIVE ObserverCalls(_, _)
ObserverCalls(records, live) ==
    IF records = <<>> THEN 0
    ELSE IF RecordReturns(Head(records), live) THEN 0
    ELSE 1 + ObserverCalls(Tail(records), live)

\* The records a batch of style updates leaves: the attribute before each.
BatchRecords(old, news) ==
    [i \in 1..Len(news) |-> StyleAttr(IF i = 1 THEN old ELSE news[i - 1])]

\* A geometry update qualifies when all four dimensions are resolved and at
\* least one differs.  Used only to label a batch in the variable last; the
\* callback itself decides by RecordReturns.
Qualifies(old, new) ==
    /\ old.width # "" /\ old.height # "" /\ new.width # "" /\ new.height # ""
    /\ (old.width # new.width \/ old.height # new.height)

BatchQualifies(old, news) ==
    \E i \in 1..Len(news) : Qualifies(IF i = 1 THEN old ELSE news[i - 1], news[i])

(* ------------------------------ debounce ------------------------------ *)
\* debounce(cb, 500) with resetTimer left at its default (false): a call
\* while a timeout is pending keeps the pending deadline.
DebounceCall(timer) == IF timer = NoTimer THEN DebounceTimeout ELSE timer

(* ------------------------------- nodes -------------------------------- *)
FrameTag == IF platform = "desktop" THEN "WEBVIEW" ELSE "IFRAME"

NewNode ==
    [ pc |-> "none", alive |-> FALSE, initializing |-> FALSE,
      alwaysKeepLoaded |-> "host", frameEl |-> "none", listener |-> FALSE,
      activations |-> 0, imgEl |-> "none", imgLoad |-> "na", label |-> "url",
      seen |-> [thumb |-> FALSE, meta |-> FALSE],
      observing |-> FALSE, style |-> [width |-> "", height |-> ""],
      debounce |-> NoTimer, callAge |-> 0, settle |-> <<>>,
      ops |-> <<>>, page |-> "t1", titleChanges |-> 0, loaded |-> FALSE,
      loadCaptures |-> 0 ]

\* recreateFrame without its _initializing guard.
RecreateFrameUnguarded(nd) ==
    [nd EXCEPT !.frameEl = FrameTag, !.loaded = FALSE,
               !.listener = (FrameTag = "WEBVIEW"),
               !.activations = nd.activations + 1]

\* recreateFrame that registers no load-finished handler.
RecreateFrameNoListener(nd) ==
    IF nd.initializing THEN nd
    ELSE [nd EXCEPT !.frameEl = FrameTag, !.loaded = FALSE,
                    !.listener = FALSE,
                    !.activations = nd.activations + 1]

\* Lines 155-182: the patched recreateFrame.  The host's recreateFrame
\* (next) replaces frameEl by a new frame element; the load-finished handler
\* is registered on it when it is a webview.
RecreateFrame(nd) ==
    IF nd.initializing THEN nd
    ELSE [nd EXCEPT !.frameEl = FrameTag, !.loaded = FALSE,
                    !.listener = (FrameTag = "WEBVIEW"),
                    !.activations = nd.activations + 1]

\* Lines 115-119.
RevealWebview(nd) ==
    RecreateFrame([nd EXCEPT !.alwaysKeepLoaded = "true", !.imgEl = "removed"])

\* The miss test with && in place of ||.
IsMissAlt(thumbnailExists, metadataExists) == ~thumbnailExists /\ ~metadataExists

\* Line 125: the cache-miss test on the two exists() results.
IsMiss(thumbnailExists, metadataExists) == ~thumbnailExists \/ ~metadataExists

Upd(n, r) == node' = [node EXCEPT ![n] = r]

(* ------------------------------- cache -------------------------------- *)
\* A thumbnail path that does not depend on the node.
GetThumbnailPathShared(n) == <<1, "thumb">>

\* Lines 68-73: the two cache paths of a node, built from its id (a node is
\* identified here by its id).
GetThumbnailPath(n) == <<n, "thumb">>
GetMetadataPath(n) == <<n, "meta">>

\* vault.exists, adapter.read and the effect of a successful adapter.write
\* or writeBinary on the file at a path.
Exists(path) == store[path[1]][path[2]] # "absent"
Read(path) == store[path[1]][path[2]]
Write(path, data) == store' = [store EXCEPT ![path[1]][path[2]] = data]

\* What the last step did, for the properties that speak of a step: an
\* exception left unhandled ("threw"), an observer callback ("batch": flag
\* says whether it called the debounced function, qual whether one of its
\* updates qualified), a debounce timeout firing ("fire": age is the time
\* since the last call of the debounced function, flag whether
\* _saveThumbnail threw), the end of the settle delay with a frame mounted
\* ("settled"), revealWebview ("reveal"), a capture that failed
\* ("captureFailed"), a write that failed ("writeFailed"), a failed
\* capture-and-save whose own metadata write changed the cache
\* ("failedDirty").
Event(kind, flag, qual, age) ==
    [kind |-> kind, flag |-> flag, qual |-> qual, age |-> age]

Quiet == Event("none", FALSE, FALSE, 0)
Threw == Event("threw", FALSE, FALSE, 0)

(* ------------------------------- plugin ------------------------------- *)
\* The plugin and the part of the workspace it looks at.  phase: "none"
\* before onload, "loaded" while the layout-ready callback is pending,
\* "ready" once it has run, "unloaded" after unload.  leaves: the canvas
\* leaves of the workspace, in order, each with a view that holds a canvas
\* ("canvas") or does not yet ("deferred").  evt: the layout-change
\* subscription.  listening: the patched-canvas handler of line 10 is
\* registered.  patches: wrappers installed on the link node prototype;
\* uninstallers: disposers registered with the plugin; notifications:
\* patched-canvas triggers; rebuilds: rebuildView calls.
LeafKinds == {"canvas", "deferred"}

NewPlugin ==
    [ phase |-> "none", layoutReady |-> FALSE, leaves |-> <<>>, evt |-> "none",
      listening |-> FALSE, patches |-> 0, uninstallers |-> 0,
      notifications |-> 0, rebuilds |-> 0, layoutChanges |-> 0 ]

\* Lines 33-36.
ReloadActiveCanvasViews(p) == [p EXCEPT !.rebuilds = @ + Len(p.leaves)]

\* Lines 10-12 and 187: workspace.trigger runs the handlers registered for
\* patched-canvas.
TriggerPatchedCanvas(p) ==
    LET q == [p EXCEPT !.notifications = @ + 1]
    IN  IF q.listening THEN ReloadActiveCanvasViews(q) ELSE q

\* Lines 57-59 and 184-188: install the wrappers, register the uninstaller,
\* raise the notification.
PatchLinkNode(p) ==
    TriggerPatchedCanvas([p EXCEPT !.patches = @ + 1, !.uninstallers = @ + 1])

\* Lines 45-50: the first canvas leaf has a view that holds a canvas.
HasCanvas(p) == p.leaves # <<>> /\ Head(p.leaves) = "canvas"

\* Lines 44-55; its return value is HasCanvas(p).
TryPatchLinkNode(p) == IF HasCanvas(p) THEN PatchLinkNode(p) ELSE p

\* The layout-change handler without its offref.
LayoutChangeHandlerKeepsRef(p) == TryPatchLinkNode(p)

\* Lines 18-20: this.tryPatchLinkNode() && this.app.workspace.offref(evt).
LayoutChangeHandler(p) ==
    IF HasCanvas(p) THEN [TryPatchLinkNode(p) EXCEPT !.evt = "off"]
    ELSE TryPatchLinkNode(p)

\* Lines 16-23: the layout-ready callback.
OnLayoutReady(p) ==
    IF HasCanvas(p) THEN [TryPatchLinkNode(p) EXCEPT !.phase = "ready"]
    ELSE [TryPatchLinkNode(p) EXCEPT !.phase = "ready", !.evt = "on"]

\* The plugin once it has patched the one canvas open at layout-ready.
Patched ==
    [ phase |-> "ready", layoutReady |-> TRUE, leaves |-> <<"canvas">>,
      evt |-> "none", listening |-> TRUE, patches |-> 1, uninstallers |-> 1,
      notifications |-> 1, rebuilds |-> 1, layoutChanges |-> 0 ]

(* ------------------------------- Init --------------------------------- *)
Init ==
    /\ node = [n \in Nodes |-> NewNode]
    /\ store \in [Nodes -> [thumb : {"absent", "t1"}, meta : {"absent", "corrupt", "t1"}]]
    /\ platform \in {"desktop", "mobile"}
    /\ last = Quiet
    /\ plugin = Patched

(* ------------------------------ actions ------------------------------- *)
\* The geometry a node is dragged between once laid out.
ResizeStyles == {[width |-> "100px", height |-> "100px"], [width |-> "200px", height |-> "100px"]}

InitialStyles == {[width |-> "", height |-> ""], [width |-> "100px", height |-> "100px"]}

\* Line 76: the host's own initialize, which asks for the frame.
HostInitialize(nd) == RecreateFrame(nd)

\* Lines 74-112 and 152: the synchronous part of the patched initialize.  The
\* async block of lines 114-150 is left suspended at its first await.
Initialize(n) ==
    /\ node[n].pc = "none"
    /\ \E s \in InitialStyles :
         LET a == [node[n] EXCEPT !.initializing = TRUE, !.alive = TRUE]
             b == HostInitialize(a)
             c == [b EXCEPT !.initializing = FALSE, !.style = s,
                            !.observing = TRUE, !.pc = "lookup"]
         IN  Upd(n, c)
    /\ last' = Quiet
    /\ UNCHANGED <<store, platform, plugin>>

\* Lines 121-131: both exists() calls have resolved.
LookupResolves(n) ==
    /\ node[n].pc = "lookup"
    /\ LET thumbnailExists == Exists(GetThumbnailPath(n))
           metadataExists == Exists(GetMetadataPath(n))
           a == [node[n] EXCEPT !.seen = [thumb |-> thumbnailExists,
                                           meta |-> metadataExists]]
       IN  IF IsMiss(thumbnailExists, metadataExists)
           THEN Upd(n, [RecreateFrame(a) EXCEPT !.pc = "miss"])
           ELSE Upd(n, [a EXCEPT !.alwaysKeepLoaded = "false", !.pc = "reading"])
    /\ last' = Quiet
    /\ UNCHANGED <<store, platform, plugin>>

\* Lines 134-149: the metadata read has resolved.  JSON.parse throws on
\* content that is no JSON (and read rejects on a missing file); nothing in
\* the async block catches it.
ReadResolves(n) ==
    /\ node[n].pc = "reading"
    /\ LET metadataRaw == Read(GetMetadataPath(n))
       IN  IF metadataRaw \in Titles
           THEN Upd(n, [node[n] EXCEPT !.label = metadataRaw, !.imgEl = "shown",
                                       !.imgLoad = "loading", !.pc = "hit"])
           ELSE Upd(n, [node[n] EXCEPT !.pc = "failed"])
    /\ last' = IF Read(GetMetadataPath(n)) \in Titles THEN Quiet ELSE Threw
    /\ UNCHANGED <<store, platform, plugin>>

\* Line 148: a click on the cached image.
ClickImage(n) ==
    /\ node[n].alive /\ node[n].imgEl = "shown"
    /\ Upd(n, RevealWebview(node[n]))
    /\ last' = Event("reveal", FALSE, FALSE, 0)
    /\ UNCHANGED <<store, platform, plugin>>

\* Line 149: the cached image fails to load (the listener stays on the
\* element after it is removed from the document).
ImageError(n) ==
    /\ node[n].alive /\ node[n].imgLoad = "loading"
    /\ Upd(n, RevealWebview([node[n] EXCEPT !.imgLoad = "settled"]))
    /\ last' = Event("reveal", FALSE, FALSE, 0)
    /\ UNCHANGED <<store, platform, plugin>>

\* The cached image loads; no listener is registered for it.
ImageLoaded(n) ==
    /\ node[n].alive /\ node[n].imgLoad = "loading"
    /\ Upd(n, [node[n] EXCEPT !.imgLoad = "settled"])
    /\ last' = Quiet
    /\ UNCHANGED <<store, platform, plugin>>

\* onFrameLoaded without its removeEventListener.
OnFrameLoadedKeepsListener(nd) ==
    [nd EXCEPT !.settle = Append(nd.settle, SettleDelay)]

\* Lines 162-166: did-frame-finish-load reaches onFrameLoaded, which
\* unregisters itself and starts to sleep.
OnFrameLoaded(nd) ==
    [nd EXCEPT !.listener = FALSE, !.settle = Append(nd.settle, SettleDelay)]

\* The frame finishes a load.  A webview may report it again (a navigation,
\* a subframe); only a registered handler reacts.
FrameFinishLoad(n) ==
    /\ node[n].alive /\ node[n].frameEl # "none"
    /\ node[n].listener \/ ~node[n].loaded
    /\ node[n].listener => Len(node[n].settle) < MaxInFlight
    /\ LET a == [node[n] EXCEPT !.loaded = TRUE]
       IN  Upd(n, IF a.listener THEN OnFrameLoaded(a) ELSE a)
    /\ last' = Quiet
    /\ UNCHANGED <<store, platform, plugin>>

\* Lines 60-64: _saveThumbnail up to its await.  No frame: return.  A frame
\* that is no webview has no capturePage: the call throws.
SaveThumbnailThrows(nd) == nd.frameEl \notin {"none", "WEBVIEW"}

SaveThumbnail(nd, path, meta) ==
    IF nd.frameEl # "WEBVIEW" THEN nd
    ELSE [nd EXCEPT !.ops = Append(nd.ops,
             [path |-> path, stage |-> "capture", img |-> "none",
              meta |-> meta, title |-> nd.page])]

\* Lines 168-174: the sleep is over.  getTitle() is read off this.frameEl
\* (a TypeError when there is none), the metadata write is issued and not
\* awaited, then _saveThumbnail is called.
SettleElapsed(n) ==
    /\ node[n].settle # <<>> /\ Head(node[n].settle) = 0
    /\ Len(node[n].ops) < MaxInFlight
    /\ LET a == [node[n] EXCEPT !.settle = Tail(node[n].settle)]
       IN  IF a.frameEl = "none"
           THEN Upd(n, a) /\ last' = Threw
           ELSE /\ Upd(n, [SaveThumbnail(a, "load", "pending") EXCEPT
                              !.loadCaptures = Min(3, a.loadCaptures + 1)])
                /\ last' = IF SaveThumbnailThrows(a) THEN Threw
                           ELSE Event("settled", FALSE, FALSE, 0)
    /\ UNCHANGED <<store, platform, plugin>>

\* Lines 81-104: a host task changes the style attribute of nodeEl one or
\* more times; the observer callback then runs with one record per change.
MutationBatch(n, S, K) ==
    /\ node[n].alive /\ node[n].observing
    /\ \E k \in 1..K : \E news \in [1..k -> S] :
         LET old == node[n].style
             live == news[k]
             calls == ObserverCalls(BatchRecords(old, news), live)
             q == BatchQualifies(old, news)
         IN  /\ Upd(n, [node[n] EXCEPT
                     !.style = live,
                     !.debounce = IF calls > 0 THEN DebounceCall(@) ELSE @,
                     !.callAge = IF calls > 0 THEN 0 ELSE @])
             /\ last' = Event("batch", calls > 0, q, 0)
    /\ UNCHANGED <<store, platform, plugin>>

\* Line 80: the debounce timeout fires and runs _saveThumbnail.
DebounceFire(n) ==
    /\ node[n].debounce = 0
    /\ (node[n].frameEl = "WEBVIEW" => Len(node[n].ops) < MaxInFlight)
    /\ Upd(n, SaveThumbnail([node[n] EXCEPT !.debounce = NoTimer, !.callAge = 0],
                             "resize", "na"))
    /\ last' = Event("fire", SaveThumbnailThrows(node[n]), FALSE, node[n].callAge)
    /\ UNCHANGED <<store, platform, plugin>>

\* PutOp that starts a failed capture again.
PutOpRetries(nd, i, op) ==
    [nd EXCEPT !.ops = [nd.ops EXCEPT ![i] =
        [op EXCEPT !.stage = IF op.stage = "failed" THEN "capture" ELSE @]]]

InFlightStages == {"capture", "write"}

\* An operation is forgotten once its capture/thumbnail write and its
\* metadata write have both ended.
Settled(op) == op.stage \notin InFlightStages /\ op.meta # "pending"

PutOp(nd, i, op) ==
    [nd EXCEPT !.ops = IF Settled(op) THEN RemoveAt(nd.ops, i)
                       ELSE [nd.ops EXCEPT ![i] = op]]

\* A capture-and-save that has failed to obtain an image and whose own
\* metadata write has changed the cache entry.
FailedDirty(op) == op.stage = "failed" /\ op.meta = "changed"

\* Lines 64-66: capturePage() settles.  On success writeBinary is issued (not
\* awaited); a rejection leaves _saveThumbnail as an exception.
CaptureResolves(n, i) ==
    /\ i \in 1..Len(node[n].ops) /\ node[n].ops[i].stage = "capture"
    /\ \E ok \in BOOLEAN :
         LET op == node[n].ops[i]
             failed == [op EXCEPT !.stage = "failed"]
         IN  IF ok
             THEN /\ Upd(n, PutOp(node[n], i, [op EXCEPT !.stage = "write",
                                                        !.img = node[n].page]))
                  /\ last' = Quiet
             ELSE /\ Upd(n, PutOp(node[n], i, failed))
                  /\ last' = Event(IF FailedDirty(failed) THEN "failedDirty"
                                   ELSE "captureFailed", TRUE, FALSE, 0)
    /\ UNCHANGED <<store, platform, plugin>>

\* Line 65: the thumbnail write ends.
ThumbnailWriteEnds(n, i) ==
    /\ i \in 1..Len(node[n].ops) /\ node[n].ops[i].stage = "write"
    /\ \E ok \in BOOLEAN :
         LET op == node[n].ops[i]
         IN  /\ Upd(n, PutOp(node[n], i, [op EXCEPT !.stage = "done"]))
             /\ IF ok THEN Write(GetThumbnailPath(n), op.img) ELSE UNCHANGED store
             /\ last' = IF ok THEN Quiet ELSE Event("writeFailed", FALSE, FALSE, 0)
    /\ UNCHANGED <<platform, plugin>>

\* Line 170: the metadata write ends.
MetadataWriteEnds(n, i) ==
    /\ i \in 1..Len(node[n].ops) /\ node[n].ops[i].meta = "pending"
    /\ \E ok \in BOOLEAN :
         LET op == node[n].ops[i]
             changes == ok /\ Read(GetMetadataPath(n)) # op.title
             ended == [op EXCEPT !.meta = IF changes THEN "changed"
                                             ELSE IF ok THEN "same" ELSE "failed"]
         IN  /\ Upd(n, PutOp(node[n], i, ended))
             /\ IF ok THEN Write(GetMetadataPath(n), op.title) ELSE UNCHANGED store
             /\ last' = IF FailedDirty(ended) THEN Event("failedDirty", FALSE, FALSE, 0)
                        ELSE IF ok THEN Quiet
                        ELSE Event("writeFailed", FALSE, FALSE, 0)
    /\ UNCHANGED <<platform, plugin>>

\* The page shown in the frame changes its title.
PageTitleChange(n) ==
    /\ node[n].alive /\ node[n].frameEl # "none"
    /\ node[n].titleChanges < MaxTitleChanges
    /\ \E t \in Titles \ {node[n].page} :
         Upd(n, [node[n] EXCEPT !.page = t, !.titleChanges = @ + 1])
    /\ last' = Quiet
    /\ UNCHANGED <<store, platform, plugin>>

\* The host tears the node down: its elements leave the document.  The
\* plugin registers nothing for teardown.
Destroy(n) ==
    /\ node[n].alive
    /\ Upd(n, [node[n] EXCEPT !.alive = FALSE, !.frameEl = "none",
                               !.listener = FALSE, !.loaded = FALSE])
    /\ last' = Quiet
    /\ UNCHANGED <<store, platform, plugin>>

\* Time advances by Tick when no timer is due.
TimerPending(nd) ==
    nd.debounce > 0 \/ \E i \in 1..Len(nd.settle) : nd.settle[i] > 0

TimerDue(nd) ==
    nd.debounce = 0 \/ \E i \in 1..Len(nd.settle) : nd.settle[i] = 0

Advance(nd) ==
    [nd EXCEPT !.debounce = IF @ > 0 THEN Max(0, @ - Tick) ELSE @,
               !.callAge = IF nd.debounce > 0 THEN Min(DebounceTimeout, @ + Tick) ELSE @,
               !.settle = [i \in 1..Len(@) |-> Max(0, @[i] - Tick)]]

TimePasses ==
    /\ \E n \in DOMAIN node : TimerPending(node[n])
    /\ \A n \in DOMAIN node : ~TimerDue(node[n])
    /\ node' = [n \in DOMAIN node |-> Advance(node[n])]
    /\ last' = Quiet
    /\ UNCHANGED <<store, platform, plugin>>

Next ==
    \/ \E n \in DOMAIN node : Initialize(n)
    \/ \E n \in DOMAIN node : LookupResolves(n)
    \/ \E n \in DOMAIN node : ReadResolves(n)
    \/ \E n \in DOMAIN node : ClickImage(n)
    \/ \E n \in DOMAIN node : ImageError(n)
    \/ \E n \in DOMAIN node : ImageLoaded(n)
    \/ \E n \in DOMAIN node : FrameFinishLoad(n)
    \/ \E n \in DOMAIN node : SettleElapsed(n)
    \/ \E n \in DOMAIN node : MutationBatch(n, ResizeStyles, 1)
    \/ \E n \in DOMAIN node : DebounceFire(n)
    \/ \E n \in DOMAIN node : \E i \in 1..MaxInFlight : CaptureResolves(n, i)
    \/ \E n \in DOMAIN node : \E i \in 1..MaxInFlight : ThumbnailWriteEnds(n, i)
    \/ \E n \in DOMAIN node : \E i \in 1..MaxInFlight : MetadataWriteEnds(n, i)
    \/ \E n \in DOMAIN node : PageTitleChange(n)
    \/ \E n \in DOMAIN node : Destroy(n)
    \/ TimePasses

Spec == Init /\ [][Next]_vars

(* A laid-out node on the desktop with an empty cache, under every batch of *)
(* up to MaxBatch style updates over all of Styles.                         *)
InitGeometry ==
    /\ node = [n \in Nodes |-> NewNode]
    /\ store = [n \in Nodes |-> [thumb |-> "absent", meta |-> "absent"]]
    /\ platform = "desktop"
    /\ last = Quiet
    /\ plugin = Patched

NextGeometry ==
    \/ \E n \in DOMAIN node : Initialize(n)
    \/ \E n \in DOMAIN node : LookupResolves(n)
    \/ \E n \in DOMAIN node : MutationBatch(n, Styles, MaxBatch)
    \/ \E n \in DOMAIN node : DebounceFire(n)
    \/ \E n \in DOMAIN node : \E i \in 1..MaxInFlight : CaptureResolves(n, i)
    \/ \E n \in DOMAIN node : \E i \in 1..MaxInFlight : ThumbnailWriteEnds(n, i)
    \/ TimePasses

SpecGeometry == InitGeometry /\ [][NextGeometry]_vars

(* A fresh node with an empty cache that receives no geometry change.       *)
InitLoad ==
    /\ node = [n \in Nodes |-> NewNode]
    /\ store = [n \in Nodes |-> [thumb |-> "absent", meta |-> "absent"]]
    /\ platform \in {"desktop", "mobile"}
    /\ last = Quiet
    /\ plugin = Patched

NextLoad ==
    \/ \E n \in DOMAIN node : Initialize(n)
    \/ \E n \in DOMAIN node : LookupResolves(n)
    \/ \E n \in DOMAIN node : FrameFinishLoad(n)
    \/ \E n \in DOMAIN node : SettleElapsed(n)
    \/ \E n \in DOMAIN node : \E i \in 1..MaxInFlight : CaptureResolves(n, i)
    \/ \E n \in DOMAIN node : \E i \in 1..MaxInFlight : ThumbnailWriteEnds(n, i)
    \/ \E n \in DOMAIN node : \E i \in 1..MaxInFlight : MetadataWriteEnds(n, i)
    \/ \E n \in DOMAIN node : PageTitleChange(n)
    \/ \E n \in DOMAIN node : Destroy(n)
    \/ TimePasses

\* Timers fire and time passes; a capture, a write and a load that have been
\* started come to an end.
FairLoad ==
    /\ WF_vars(TimePasses)
    /\ \A n \in Nodes :
         /\ WF_vars(LookupResolves(n))
         /\ WF_vars(FrameFinishLoad(n))
         /\ WF_vars(SettleElapsed(n))
         /\ \A i \in 1..MaxInFlight :
              /\ WF_vars(CaptureResolves(n, i))
              /\ WF_vars(ThumbnailWriteEnds(n, i))
              /\ WF_vars(MetadataWriteEnds(n, i))

SpecLoad == InitLoad /\ [][NextLoad]_vars /\ FairLoad

(* Two nodes of one canvas on the desktop: the first over an empty cache    *)
(* entry and resized by the user, the second over a full one and revealed   *)
(* by a click; both go through lookup and initial-load capture.             *)
TwoNodes == {1, 2}
Resized == {1}

InitTwoNodes ==
    /\ node = [n \in TwoNodes |-> NewNode]
    /\ store = [n \in TwoNodes |-> IF n \in Resized
                                    THEN [thumb |-> "absent", meta |-> "absent"]
                                    ELSE [thumb |-> "t1", meta |-> "t1"]]
    /\ platform = "desktop"
    /\ last = Quiet
    /\ plugin = Patched

NextTwoNodes ==
    \/ \E n \in DOMAIN node : Initialize(n)
    \/ \E n \in DOMAIN node : LookupResolves(n)
    \/ \E n \in DOMAIN node : ReadResolves(n)
    \/ \E n \in DOMAIN node : ClickImage(n)
    \/ \E n \in DOMAIN node : FrameFinishLoad(n)
    \/ \E n \in DOMAIN node : SettleElapsed(n)
    \/ \E n \in Resized : MutationBatch(n, ResizeStyles, 1)
    \/ \E n \in DOMAIN node : DebounceFire(n)
    \/ \E n \in DOMAIN node : \E i \in 1..MaxInFlight : CaptureResolves(n, i)
    \/ \E n \in DOMAIN node : \E i \in 1..MaxInFlight : ThumbnailWriteEnds(n, i)
    \/ \E n \in DOMAIN node : \E i \in 1..MaxInFlight : MetadataWriteEnds(n, i)
    \/ TimePasses

SpecTwoNodes == InitTwoNodes /\ [][NextTwoNodes]_vars

(* A desktop node whose geometry changes only while it shows no live frame: *)
(* while it awaits the lookup or shows the cached snapshot.                 *)
DormantMutationBatch(n) ==
    /\ node[n].frameEl = "none"
    /\ MutationBatch(n, ResizeStyles, 1)

InitDormant ==
    /\ node = [n \in Nodes |-> NewNode]
    /\ store \in [Nodes -> {[thumb |-> "absent", meta |-> "absent"],
                            [thumb |-> "t1", meta |-> "t1"]}]
    /\ platform = "desktop"
    /\ last = Quiet
    /\ plugin = Patched

NextDormant ==
    \/ \E n \in DOMAIN node : Initialize(n)
    \/ \E n \in DOMAIN node : LookupResolves(n)
    \/ \E n \in DOMAIN node : ReadResolves(n)
    \/ \E n \in DOMAIN node : ClickImage(n)
    \/ \E n \in DOMAIN node : ImageError(n)
    \/ \E n \in DOMAIN node : ImageLoaded(n)
    \/ \E n \in DOMAIN node : FrameFinishLoad(n)
    \/ \E n \in DOMAIN node : SettleElapsed(n)
    \/ \E n \in DOMAIN node : DormantMutationBatch(n)
    \/ \E n \in DOMAIN node : DebounceFire(n)
    \/ \E n \in DOMAIN node : \E i \in 1..MaxInFlight : CaptureResolves(n, i)
    \/ \E n \in DOMAIN node : \E i \in 1..MaxInFlight : ThumbnailWriteEnds(n, i)
    \/ \E n \in DOMAIN node : \E i \in 1..MaxInFlight : MetadataWriteEnds(n, i)
    \/ TimePasses

SpecDormant == InitDormant /\ [][NextDormant]_vars

(* ------------------------- loading the plugin ------------------------- *)
\* Lines 9-26: onload.  workspace.onLayoutReady runs its callback at once
\* when the layout is ready, and keeps it for later otherwise.
Onload ==
    /\ plugin.phase = "none"
    /\ LET p == [plugin EXCEPT !.phase = "loaded", !.listening = TRUE]
       IN  plugin' = IF p.layoutReady THEN OnLayoutReady(p) ELSE p
    /\ UNCHANGED <<node, store, platform, last>>

\* The workspace layout becomes ready and runs the callbacks it has kept.
WorkspaceLayoutReady ==
    /\ ~plugin.layoutReady
    /\ LET p == [plugin EXCEPT !.layoutReady = TRUE]
       IN  plugin' = IF p.phase = "loaded" THEN OnLayoutReady(p) ELSE p
    /\ UNCHANGED <<node, store, platform, last>>

\* The workspace raises layout-change; a subscribed handler runs.
LayoutChange ==
    /\ plugin.layoutReady
    /\ plugin.layoutChanges < MaxLayoutChanges
    /\ LET p == [plugin EXCEPT !.layoutChanges = @ + 1]
       IN  plugin' = IF p.evt = "on" THEN LayoutChangeHandler(p) ELSE p
    /\ UNCHANGED <<node, store, platform, last>>

\* The user opens a canvas leaf; its view may be deferred.
OpenLeaf ==
    /\ Len(plugin.leaves) < MaxLeaves
    /\ \E k \in LeafKinds : plugin' = [plugin EXCEPT !.leaves = Append(@, k)]
    /\ UNCHANGED <<node, store, platform, last>>

\* The user closes a canvas leaf.
CloseLeaf ==
    /\ \E i \in 1..Len(plugin.leaves) :
         plugin' = [plugin EXCEPT !.leaves = RemoveAt(@, i)]
    /\ UNCHANGED <<node, store, platform, last>>

\* A deferred view is loaded and now holds its canvas.
ViewLoads ==
    /\ \E i \in 1..Len(plugin.leaves) :
         /\ plugin.leaves[i] = "deferred"
         /\ plugin' = [plugin EXCEPT !.leaves[i] = "canvas"]
    /\ UNCHANGED <<node, store, platform, last>>

\* Lines 28-31: the user disables the plugin (the layout is ready by then):
\* onunload rebuilds the views, then the plugin runs what was registered
\* with it: the uninstallers and the removal of its event handlers.
Onunload ==
    /\ plugin.phase = "ready"
    /\ LET p == ReloadActiveCanvasViews(plugin)
       IN  plugin' = [p EXCEPT !.phase = "unloaded",
                               !.patches = @ - p.uninstallers,
                               !.uninstallers = 0,
                               !.listening = FALSE,
                               !.evt = IF @ = "on" THEN "off" ELSE @]
    /\ UNCHANGED <<node, store, platform, last>>

InitPlugin ==
    /\ node = [n \in Nodes |-> NewNode]
    /\ store = [n \in Nodes |-> [thumb |-> "absent", meta |-> "absent"]]
    /\ platform = "desktop"
    /\ last = Quiet
    /\ \E r \in BOOLEAN : plugin = [NewPlugin EXCEPT !.layoutReady = r]

NextPlugin ==
    \/ Onload
    \/ WorkspaceLayoutReady
    \/ LayoutChange
    \/ OpenLeaf
    \/ CloseLeaf
    \/ ViewLoads
    \/ Onunload

SpecPlugin == InitPlugin /\ [][NextPlugin]_vars

(* ------------------------------ claims -------------------------------- *)
InFlight(nd) == Cardinality({i \in 1..Len(nd.ops) : nd.ops[i].stage \in InFlightStages})

\* C1: at most one capture-and-save (from the call of capturePage until its
\* thumbnail write has ended) is in flight per node at any instant.
C1_AtMostOneCaptureInFlight ==
    \A n \in DOMAIN node : InFlight(node[n]) <= 1

\* C2: the debounced capture starts only after a full quiet window has passed
\* since the last qualifying change: every call resets the pending timer.
C2_CaptureAfterFullQuietWindow ==
    \A n \in DOMAIN node :
        (last.kind = "fire" /\ node[n].frameEl = "WEBVIEW")
        => last.age >= DebounceTimeout

\* C3: a callback batch that holds a qualifying geometry update leaves a
\* pending debounced capture, whatever else the batch holds.
C3_QualifyingUpdateSchedules ==
    \A n \in DOMAIN node :
        (last.kind = "batch" /\ last.qual) => node[n].debounce # NoTimer

\* C4: geometry updates that do not qualify (unchanged, or with an unresolved
\* dimension) never schedule a capture.
C4_NonQualifyingNeverSchedules ==
    (last.kind = "batch" /\ ~last.qual) => ~last.flag

\* C5: metadata that cannot be parsed is a cache miss: no error leaves the
\* lookup and recreateFrame is called.
C5_CorruptMetadataIsMiss ==
    \A n \in DOMAIN node :
        (node[n].seen.thumb /\ node[n].seen.meta /\ store[n].meta = "corrupt"
         /\ node[n].pc \notin {"lookup", "reading"})
        => (last # Threw /\ node[n].pc = "miss" /\ node[n].activations >= 1)

\* The first, safety, half of C6 for a node on any platform.
C6_ActivatesAfterLookup(n) ==
    node[n].pc = "miss" =>
        /\ node[n].activations = 1
        /\ node[n].alive => node[n].frameEl = FrameTag

C6_TitleOfTheMoment(n) ==
    last.kind = "settled" =>
        LET op == node[n].ops[Len(node[n].ops)]
        IN  op.path = "load" /\ op.meta = "pending" /\ op.title = node[n].page

\* C6 as stated: a fresh node with an empty cache and no geometry change
\* activates live rendering after the lookup, and once its frame has
\* finished loading the settle delay runs and exactly one capture-and-save
\* is started, with the title of that moment.
C6_LoadFinishedLeadsToOneCapture ==
    \A n \in DOMAIN node :
        /\ C6_ActivatesAfterLookup(n)
        /\ C6_TitleOfTheMoment(n)
        /\ node[n].loadCaptures <= 1
        /\ (node[n].loaded /\ node[n].alive)
           => (node[n].settle # <<>> \/ node[n].loadCaptures = 1)

C6_Safety ==
    \A n \in DOMAIN node :
        /\ C6_ActivatesAfterLookup(n)
        /\ C6_TitleOfTheMoment(n)
        /\ node[n].loadCaptures <= 1
        /\ (platform = "desktop" /\ node[n].loaded /\ node[n].alive)
           => (node[n].settle # <<>> \/ node[n].loadCaptures = 1)
        /\ platform # "desktop" => (node[n].loadCaptures = 0 /\ ~node[n].listener)

C6_Saving(n) ==
    \E i \in 1..Len(node[n].ops) :
        /\ node[n].ops[i].path = "load"
        /\ node[n].ops[i].stage \in InFlightStages
        /\ node[n].ops[i].meta # "failed"

C6_Saved(n) ==
    \/ store[n].thumb \in Titles /\ store[n].meta \in Titles
    \/ last.kind \in {"captureFailed", "failedDirty", "writeFailed"}
    \/ ~node[n].alive

\* C6, amended: as C6 where the frame is a webview (desktop); elsewhere no
\* load-finished handler is registered and no capture-and-save is made.  A
\* capture-and-save that has started ends with both parts in the store,
\* unless the capture or a write fails or the node is torn down.
C6_FreshNodeCachesOnce ==
    /\ []C6_Safety
    /\ \A n \in Nodes : C6_Saving(n) ~> C6_Saved(n)

C6_Witness ==
    \E n \in DOMAIN node :
        /\ platform = "desktop" /\ node[n].alive /\ node[n].pc = "miss"
        /\ node[n].loadCaptures = 1 /\ node[n].ops = <<>>
        /\ store[n].thumb = "t2" /\ store[n].meta = "t2"

\* C7: a node constructed over a cached thumbnail and parsable metadata shows
\* the cached image with the stored title as its label, and recreateFrame
\* does not run for it until a click or an error on the cached image.
C7_CacheHitStaysDormant ==
    \A n \in DOMAIN node :
        /\ (node[n].pc = "reading" \/ (node[n].pc = "hit" /\ node[n].activations = 0))
           => (node[n].frameEl = "none" /\ ~node[n].listener)
        /\ (node[n].pc \in {"reading", "hit"} /\ node[n].imgEl # "removed")
           => node[n].activations = 0
        /\ (node[n].pc = "hit" /\ node[n].imgEl # "removed")
           => /\ node[n].imgEl = "shown"
              /\ node[n].label = store[n].meta
              /\ node[n].label \in Titles
              /\ node[n].alwaysKeepLoaded = "false"

C7_Witness ==
    \E n \in DOMAIN node :
        /\ node[n].pc = "hit" /\ node[n].imgEl = "shown" /\ node[n].label = "t1"
        /\ node[n].imgLoad = "settled" /\ last.kind = "fire"

\* C8 as stated: a click or an error on the cached image discards the image
\* and activates live rendering with the load-finished handler registered.
C8_RevealRegistersHandler ==
    \A n \in DOMAIN node :
        last.kind = "reveal" =>
            /\ node[n].imgEl = "removed"
            /\ node[n].frameEl # "none"
            /\ node[n].listener

\* C8, amended: the reveal discards the image and activates live rendering;
\* the load-finished handler is registered exactly when the frame is a
\* webview, and it stays registered until that frame reports its load.
C8_RevealActivates ==
    \A n \in DOMAIN node :
        /\ last.kind = "reveal" =>
              /\ node[n].imgEl = "removed"
              /\ node[n].alwaysKeepLoaded = "true"
              /\ node[n].frameEl = FrameTag
              /\ node[n].activations >= 1
              /\ node[n].listener = (platform = "desktop")
        /\ (platform = "desktop" /\ node[n].frameEl # "none")
           => node[n].listener = ~node[n].loaded

C8_Witness ==
    \E n \in DOMAIN node :
        /\ last.kind = "reveal" /\ platform = "desktop"
        /\ node[n].listener /\ node[n].activations = 2

\* C9: with exactly one of thumbnail and metadata present at lookup, the
\* lookup is a miss: no cached image, no stored title, live rendering.
C9_HalfSnapshotIsMiss ==
    \A n \in DOMAIN node :
        (node[n].pc \notin {"none", "lookup"} /\ node[n].seen.thumb # node[n].seen.meta)
        => /\ node[n].pc = "miss"
           /\ node[n].imgEl = "none"
           /\ node[n].label = "url"
           /\ node[n].activations = 1
           /\ node[n].alive => node[n].frameEl = FrameTag

C9_Witness ==
    \E n \in DOMAIN node :
        /\ node[n].pc = "miss" /\ node[n].seen.thumb /\ ~node[n].seen.meta
        /\ node[n].frameEl # "none"

\* C10: a capture-and-save that fails to obtain an image leaves the cache of
\* its node as it was: none of its own writes has changed an entry.
C10_FailedCaptureLeavesCache ==
    last.kind # "failedDirty"

\* The step in which capture-and-save i of node n completes with both of its
\* writes successful: its thumbnail write succeeds after its metadata write
\* has succeeded.
CompletesSaved(n, i) ==
    /\ ThumbnailWriteEnds(n, i)
    /\ node[n].ops[i].meta \in {"changed", "same"}
    /\ last' = Quiet

\* C11: round trip across node lifetimes.  When a capture-and-save for an id
\* has completed with both writes successful, the store holds the image and
\* the title it saved, so that (with no later write) a node constructed over
\* the same id reads back that title and that image.
C11_SavedSnapshotIsReadBack ==
    [][\A n \in DOMAIN node : \A i \in 1..MaxInFlight :
          CompletesSaved(n, i)
          => /\ store'[n].thumb = node[n].ops[i].img
             /\ store'[n].meta = node[n].ops[i].title]_vars

\* C12: once a node has been torn down no timer of it is pending: its
\* debounce timer and its settle delays have been released.
C12_TeardownReleasesTimers ==
    \A n \in DOMAIN node :
        (node[n].pc # "none" /\ ~node[n].alive)
        => (node[n].debounce = NoTimer /\ node[n].settle = <<>>)

\* C13: when the frame of a node that has gone live disappears before its
\* capture-and-save completes, the settle delay included, the load-finished
\* handler and _saveThumbnail end without raising an exception.
C13_SurfaceLossIsGraceful ==
    \A n \in DOMAIN node :
        (node[n].activations >= 1 /\ node[n].frameEl = "none") => last # Threw

\* C14: a step that changes the cache entries of an id is a step of the node
\* with that id: the other node's entries are left as they were by every
\* operation of a node.
C14_WritesTargetOwnId ==
    [][\A m \in DOMAIN store :
          store'[m] # store[m]
          => /\ node'[m] # node[m]
             /\ \A k \in DOMAIN node \ {m} : node'[k] = node[k]]_vars

C14_Witness ==
    /\ DOMAIN node = TwoNodes
    /\ store[1].thumb = "t1" /\ store[1].meta = "t1"
    /\ node[1].ops = <<>> /\ node[1].loadCaptures = 1
    /\ node[2].imgEl = "removed" /\ node[2].ops = <<>> /\ node[2].loadCaptures = 1
    /\ store[2].thumb = "t1" /\ store[2].meta = "t1"

\* C15: capture-and-save persists image and title as a pair on the load path
\* and on the resize path: once no capture-and-save of a node is under way,
\* an image in the store has beside it the title written by the
\* capture-and-save that wrote the image.
C15_SnapshotWrittenAsPair ==
    \A n \in DOMAIN node :
        (node[n].ops = <<>> /\ store[n].thumb \in Titles)
        => store[n].meta = store[n].thumb

\* C16: a geometry change made while the node awaits the lookup or shows the
\* cached snapshot never leads to a capture of the frame: where all changes
\* are made in those states, no capture-and-save of the resize path is ever
\* started, whenever the node goes live.
C16_DormantChangeNeverCaptures ==
    \A n \in DOMAIN node :
        \A i \in 1..Len(node[n].ops) : node[n].ops[i].path # "resize"

\* The settle delays of a node run down and are never reset or extended: in
\* a step each delay that was running is where it was or lower, a delay that
\* ends is the oldest one and has run down, and a delay that starts is a new
\* one of SettleDelay.
SettleRunsDown(n) ==
    LET old == node[n].settle
        new == node'[n].settle
    IN  \/ /\ Len(new) = Len(old)
           /\ \A i \in 1..Len(old) : new[i] <= old[i]
        \/ /\ Len(new) = Len(old) - 1
           /\ old[1] = 0 /\ new = Tail(old)
        \/ /\ Len(new) = Len(old) + 1
           /\ new = Append(old, SettleDelay)
           /\ node[n].listener /\ ~node'[n].listener

C17_OneSettlePerFrame ==
    \A n \in DOMAIN node :
        /\ Len(node[n].settle) + node[n].loadCaptures <= node[n].activations
        /\ node[n].listener => (node[n].frameEl = "WEBVIEW" /\ ~node[n].loaded)
        /\ (node[n].frameEl = "WEBVIEW" /\ node[n].loaded) => ~node[n].listener

\* C17: the settle delay is one-shot per frame.  A frame created by
\* recreateFrame starts at most one settle delay and one initial-load
\* capture-and-save, its handler being unregistered from its first run on;
\* a running settle delay is not reset or extended by any later event.
C17_SettleIsOneShot ==
    /\ []C17_OneSettlePerFrame
    /\ [][\A n \in DOMAIN node : SettleRunsDown(n)]_vars

C17_Witness ==
    \E n \in DOMAIN node :
        /\ node[n].activations = 2 /\ node[n].loadCaptures = 1
        /\ Len(node[n].settle) = 1 /\ node[n].settle[1] < SettleDelay
        /\ last.kind = "batch" /\ last.flag

FailureKinds == {"captureFailed", "failedDirty", "writeFailed"}

\* The work a node has under way: captures and thumbnail writes in flight,
\* and metadata writes in flight.
Underway(nd) ==
    InFlight(nd) + Cardinality({i \in 1..Len(nd.ops) : nd.ops[i].meta = "pending"})

\* A step in which a capture or a write of node n fails ends that piece of
\* work and does nothing else: the frame, the observer and the timers of the
\* node are as they were and nothing is started.
FailureIsContained(n) ==
    /\ node'[n].alive = node[n].alive
    /\ node'[n].frameEl = node[n].frameEl
    /\ node'[n].listener = node[n].listener
    /\ node'[n].observing = node[n].observing
    /\ node'[n].debounce = node[n].debounce
    /\ node'[n].settle = node[n].settle
    /\ Len(node'[n].ops) <= Len(node[n].ops)
    /\ Underway(node'[n]) = Underway(node[n]) - 1

C19_NoActivationWhileInitializing ==
    \A n \in DOMAIN node :
        /\ ~node[n].initializing
        /\ node[n].pc \in {"none", "lookup", "reading", "failed"}
           => /\ node[n].activations = 0
              /\ node[n].frameEl = "none"
              /\ ~node[n].listener
        /\ node[n].activations >= 1
           => \/ node[n].pc = "miss"
              \/ node[n].pc = "hit" /\ node[n].imgEl = "removed"

C19_Witness ==
    \E n \in DOMAIN node :
        /\ node[n].pc = "lookup" /\ node[n].alive /\ node[n].observing
        /\ node[n].activations = 0 /\ node[n].debounce = 0

\* The patch is installed at most once, each installed wrapper has its
\* uninstaller registered, and retrying goes on exactly while nothing has
\* been installed.
C20_InstalledOnce ==
    /\ plugin.notifications <= 1
    /\ plugin.patches = plugin.uninstallers
    /\ plugin.phase # "unloaded" => plugin.patches = plugin.notifications
    /\ plugin.phase = "ready" => (plugin.evt = "on") = (plugin.notifications = 0)
    /\ plugin.evt = "on" => plugin.phase = "ready"
    /\ plugin.phase \in {"none", "loaded"} => plugin.notifications = 0

\* A successful patch in a step: the uninstaller is registered, the
\* notification raised, every open canvas view rebuilt, and no layout-change
\* handler is left subscribed.
C20_PatchIsPaired ==
    plugin'.patches > plugin.patches
    => /\ plugin'.patches = plugin.patches + 1
       /\ plugin'.uninstallers = plugin.uninstallers + 1
       /\ plugin'.notifications = plugin.notifications + 1
       /\ plugin'.rebuilds = plugin.rebuilds + Len(plugin.leaves)
       /\ HasCanvas(plugin)
       /\ plugin'.evt # "on"

\* C20: the interception is installed exactly once per plugin load, paired
\* with its disposer and its notification: patching is retried on
\* layout-change until it first succeeds, no later layout-change patches
\* again, and each patch registers its uninstaller and raises patched-canvas,
\* which rebuilds every open canvas view.
C20_PatchedOncePerLoad ==
    /\ []C20_InstalledOnce
    /\ [][C20_PatchIsPaired]_vars

C20_Witness ==
    /\ plugin.phase = "ready" /\ plugin.evt = "off"
    /\ plugin.patches = 1 /\ plugin.uninstallers = 1 /\ plugin.notifications = 1
    /\ plugin.rebuilds = MaxLeaves /\ plugin.layoutChanges = MaxLayoutChanges

====
